---------------------------- MODULE Spec2Model ----------------------------
(***************************************************************************)
(* A model of node-ssm-params-injector (src/lib/index.ts): inject walks a  *)
(* configuration object, collects the keys that reference SSM parameters,  *)
(* fetches them (getParameters in batches, getParametersByPath with        *)
(* pagination) and rewrites the object.                                    *)
(*                                                                         *)
(* Strings are sequences of symbols.  A symbol is a separator character    *)
(* (":", "/", ",") or a run of characters without separators ("ssm",       *)
(* "name", "a"), so that split, lastIndexOf, substring and length are      *)
(* computed symbol by symbol as the code computes them on characters.      *)
(*                                                                         *)
(* Objects live in a heap (a sequence indexed by object id); a value of    *)
(* type object is a reference into it, so that aliasing (mutate: true),    *)
(* the deep copy (mutate: false) and the parent references held by the     *)
(* entries are what they are in the program.  An array is an object whose  *)
(* keys are its indices, which is how the code treats it (typeof, keys).   *)
(***************************************************************************)
EXTENDS Integers, Sequences, FiniteSets, TLC

VARIABLES
    arg,        \* the tree passed to inject, as the caller wrote it (a literal)
    mutate,     \* options.mutate
    heap,       \* the objects: heap[id] is the ordered list of [k, v] of object id
    root,       \* the object inject works on (obj after line 339); 0 before the call
    entries,    \* the entries found by findEntries
    pc,         \* "idle", "names", "paths", "resolved", "rejected"
    error,      \* what inject rejected with
    swallowed,  \* the rejection of the promise of expandEntries, which nobody reads
    nameCalls,  \* the Names of every getParameters call, in issue order
    nameResps,  \* per getParameters call: its state and response
    pathCalls,  \* per by-path entry: the getParametersByPath requests issued for it
    pathResps   \* per by-path entry: the responses received for it

vars == <<arg, mutate, heap, root, entries, pc, error, swallowed, nameCalls,
          nameResps, pathCalls, pathResps>>

GET_PARAMETERS_LIMIT == 10

(***************************************************************************)
(* Bounds of the inputs.                                                   *)
(***************************************************************************)
\* the most items of Items a tree holds besides its generated by-name keys
MaxItems == 2
\* the generated by-name keys go up to this many past a full batch
MaxOver == 1
\* the most parameters the service puts in one page of getParametersByPath
MaxPageSize == 2

(***************************************************************************)
(* Strings.                                                                *)
(***************************************************************************)
Min(a, b) == IF a < b THEN a ELSE b
Max(a, b) == IF a > b THEN a ELSE b

\* s.indexOf(c), 0-based, -1 when absent
RECURSIVE IndexFrom(_, _, _)
IndexFrom(s, c, i) ==
    IF i > Len(s) THEN -1
    ELSE IF s[i] = c THEN i - 1
    ELSE IndexFrom(s, c, i + 1)

IndexOf(s, c) == IndexFrom(s, c, 1)

\* s.lastIndexOf(c), 0-based, -1 when absent
RECURSIVE LastIndexFrom(_, _, _)
LastIndexFrom(s, c, i) ==
    IF i < 1 THEN -1
    ELSE IF s[i] = c THEN i - 1
    ELSE LastIndexFrom(s, c, i - 1)

LastIndexOf(s, c) == LastIndexFrom(s, c, Len(s))

\* s.substr(from): from `from` (0-based) to the end
Substr(s, from) == SubSeq(s, Min(Max(from, 0), Len(s)) + 1, Len(s))

\* s.substring(a, b): both clamped to 0..length, swapped when a > b
Substring(s, a, b) ==
    LET ca == Min(Max(a, 0), Len(s))
        cb == Min(Max(b, 0), Len(s))
    IN  SubSeq(s, Min(ca, cb) + 1, Max(ca, cb))

EndsWith(s, c) == Len(s) > 0 /\ s[Len(s)] = c
StartsWith(s, c) == Len(s) > 0 /\ s[1] = c

\* s.split(sep) for a one-character separator: "" gives [""]
RECURSIVE Split(_, _)
Split(s, sep) ==
    LET i == IndexOf(s, sep)
    IN  IF i < 0 THEN <<s>>
        ELSE <<SubSeq(s, 1, i)>> \o Split(SubSeq(s, i + 2, Len(s)), sep)

\* the concatenation of the lists of a list (push(...list) in a loop)
RECURSIVE Flatten(_)
Flatten(ss) == IF Len(ss) = 0 THEN <<>> ELSE ss[1] \o Flatten(Tail(ss))

(***************************************************************************)
(* Values.                                                                 *)
(***************************************************************************)
Undefined == [t |-> "undefined"]
Null == [t |-> "null"]
StrV(s) == [t |-> "string", s |-> s]
NumV(n) == [t |-> "number", n |-> n]
BoolV(b) == [t |-> "boolean", b |-> b]
\* a reference to object id of the heap
RefV(id) == [t |-> "ref", id |-> id]
\* an object written out: a literal of the caller, JSON text, or a fresh object
\* nobody else refers to
ObjL(props) == [t |-> "object", props |-> props]
\* an array of strings (the value of a StringList parameter)
ListV(items) == [t |-> "array", items |-> items]

\* typeof v
TypeOf(v) ==
    IF v.t \in {"null", "ref", "object", "array"} THEN "object" ELSE v.t

\* !!v
Truthy(v) ==
    CASE v.t = "undefined" -> FALSE
      [] v.t = "null" -> FALSE
      [] v.t = "string" -> Len(v.s) > 0
      [] v.t = "number" -> v.n # 0
      [] v.t = "boolean" -> v.b
      [] OTHER -> TRUE

HasKey(props, k) == \E i \in 1..Len(props) : props[i].k = k

\* o[k]: undefined when o has no own key k
Get(props, k) ==
    IF HasKey(props, k)
    THEN props[CHOOSE i \in 1..Len(props) : props[i].k = k].v
    ELSE Undefined


\* a delete that drops the first key of the object, whatever k is
DeleteKeyShift(props, k) == IF HasKey(props, k) THEN Tail(props) ELSE props

\* delete o[k]
DeleteKey(props, k) == SelectSeq(props, LAMBDA p : p.k # k)

\* o[k] = v: an existing key keeps its place, a new key goes last
AssignKey(props, k, v) ==
    IF HasKey(props, k)
    THEN [i \in 1..Len(props) |->
            IF props[i].k = k THEN [k |-> k, v |-> v] ELSE props[i]]
    ELSE Append(props, [k |-> k, v |-> v])

(***************************************************************************)
(* JSON.parse and JSON.stringify: the text is the literal, parsing builds  *)
(* fresh objects in the heap, stringifying reads them back.                *)
(***************************************************************************)
\* the properties of a literal added to object id, the objects among their
\* values built after it
RECURSIVE AllocProps(_, _, _, _)
AllocProps(h, id, props, i) ==
    IF i > Len(props) THEN h
    ELSE LET p == props[i]
             child == Len(h) + 1
         IN  IF p.v.t = "object"
             THEN AllocProps(
                    [AllocProps(Append(h, <<>>), child, p.v.props, 1)
                        EXCEPT ![id] = Append(@, [k |-> p.k, v |-> RefV(child)])],
                    id, props, i + 1)
             ELSE AllocProps([h EXCEPT ![id] = Append(@, p)], id, props, i + 1)

\* a new object with these properties
AllocObj(h, props) ==
    [heap |-> AllocProps(Append(h, <<>>), Len(h) + 1, props, 1), id |-> Len(h) + 1]

RECURSIVE Stringify(_, _)
Stringify(h, v) ==
    CASE v.t = "ref" ->
            ObjL([i \in 1..Len(h[v.id]) |->
                    [k |-> h[v.id][i].k, v |-> Stringify(h, h[v.id][i].v)]])
      [] v.t = "object" ->
            ObjL([i \in 1..Len(v.props) |->
                    [k |-> v.props[i].k, v |-> Stringify(h, v.props[i].v)]])
      [] OTHER -> v

\* JSON.parse(JSON.stringify(obj)) of line 339
JsonClone(h, id) == AllocObj(h, Stringify(h, RefV(id)).props)

(***************************************************************************)
(* The item parser and the entry finder.                                   *)
(***************************************************************************)
KName == <<"name">>
KPath == <<"path">>
KRecursive == <<"recursive">>

ByNameData(name) == [name |-> name]
ByPathData(path, recursive) == [path |-> path, recursive |-> recursive]

instanceOfByNameData(data) == "name" \in DOMAIN data
instanceOfByPathData(data) == "path" \in DOMAIN data

\* value.f for a value that is an object
Field(h, value, f) == Get(h[value.id], f)

\* what the parser did: it threw, or it called the action `calls` times
ParserThrew == [err |-> TRUE, calls |-> <<>>]
ParserDid(calls) == [err |-> FALSE, calls |-> calls]

defaultItemParser(h, key, value) ==
    LET parts == Split(key, ":")
        _key == parts[1]
        ssmOk == Len(parts) >= 2 /\ parts[2] = <<"ssm">>
        byUndefined == Len(parts) < 3
        byName == Len(parts) >= 3 /\ parts[3] = <<"name">>
        byPath == Len(parts) >= 3 /\ parts[3] = <<"path">>
        isObject == TypeOf(value) = "object"
        isString == TypeOf(value) = "string"
    IN  IF ~ssmOk \/ ~(byUndefined \/ byName \/ byPath) THEN ParserDid(<<>>)
        \* typeof null is "object": value.name reads a property of null
        ELSE IF value = Null THEN ParserThrew
        ELSE
          LET name == IF isObject /\ TypeOf(Field(h, value, KName)) = "string"
                      THEN Field(h, value, KName)
                      ELSE IF isString THEN value ELSE Undefined
              path == IF isObject /\ TypeOf(Field(h, value, KPath)) = "string"
                      THEN Field(h, value, KPath)
                      ELSE IF isString THEN value ELSE Undefined
              recursive == IF isObject THEN Field(h, value, KRecursive)
                           ELSE Undefined
          IN  IF (byUndefined \/ byName) /\ Truthy(name)
              THEN ParserDid(<<[key |-> _key, data |-> ByNameData(name.s)]>>)
              ELSE IF (byUndefined \/ byPath) /\ Truthy(path)
              THEN ParserDid(<<[key |-> _key,
                                data |-> ByPathData(path.s, recursive)]>>)
              ELSE ParserDid(<<>>)

\* parseItem: the entries of one key, each with its parent and initial key
parseItem(h, parent, initKey) ==
    LET r == defaultItemParser(h, initKey, Get(h[parent], initKey))
    IN  [err |-> r.err,
         entries |-> [i \in 1..Len(r.calls) |->
                        [parent |-> parent, key |-> r.calls[i].key,
                         initKey |-> initKey, data |-> r.calls[i].data]]]

FindThrew == [err |-> TRUE, entries |-> <<>>]

\* the loop of findEntries(parent) from its i-th key on; the recursive call
\* findEntries(parent[key]) throws on null (Object.keys(null))
RECURSIVE findEntriesFrom(_, _, _)
findEntriesFrom(h, parent, i) ==
    IF i > Len(h[parent]) THEN [err |-> FALSE, entries |-> <<>>]
    ELSE
      LET key == h[parent][i].k
          value == h[parent][i].v
          item == parseItem(h, parent, key)
          here == IF item.err THEN FindThrew
                  ELSE IF Len(item.entries) > 0 THEN item
                  ELSE IF TypeOf(value) = "object"
                  THEN (IF value = Null THEN FindThrew
                        ELSE findEntriesFrom(h, value.id, 1))
                  ELSE [err |-> FALSE, entries |-> <<>>]
      IN  IF here.err THEN FindThrew
          ELSE LET rest == findEntriesFrom(h, parent, i + 1)
               IN  IF rest.err THEN FindThrew
                   ELSE [err |-> FALSE, entries |-> here.entries \o rest.entries]

findEntries(h, parent) ==
    IF parent = Null THEN FindThrew ELSE findEntriesFrom(h, parent.id, 1)

(***************************************************************************)
(* Parameters and their values.                                            *)
(***************************************************************************)
\* Value || "", split on commas for a StringList
getParameterValue(p) ==
    IF p.Type = "StringList" THEN ListV(Split(p.Value, ",")) ELSE StrV(p.Value)

NotFound == [found |-> FALSE, value |-> Undefined]

\* findValue: the first parameter whose Name + (Selector || "") is the name
findValue(params, name) ==
    LET hits == {i \in 1..Len(params) : params[i].Name \o params[i].Selector = name}
    IN  IF hits = {} THEN NotFound
        ELSE [found |-> TRUE,
              value |-> getParameterValue(params[CHOOSE i \in hits : \A j \in hits : i <= j])]

\* item[name] = value with item = ensureNestedObject(map, nestedKeys); the
\* objects along nestedKeys are created where missing
RECURSIVE ensureNestedAssign(_, _, _, _)
ensureNestedAssign(o, nestedKeys, name, value) ==
    IF Len(nestedKeys) = 0 THEN ObjL(AssignKey(o.props, name, value))
    ELSE
      LET key == nestedKeys[1]
          child == IF ~Truthy(Get(o.props, key)) THEN ObjL(<<>>)
                   ELSE Get(o.props, key)
      IN  ObjL(AssignKey(o.props, key,
                         ensureNestedAssign(child, Tail(nestedKeys), name, value)))

\* one step of the reduce of findValuesByPath
addParameter(map, path, p) ==
    IF Len(p.Name) = 0 THEN map
    ELSE
      LET i == LastIndexOf(p.Name, "/")
          name == Substr(p.Name, i + 1)
          pathLenth == Len(path) + (IF EndsWith(path, "/") THEN 0 ELSE 1)
          nestedKeys == Split(Substring(p.Name, pathLenth, i), "/")
      IN  IF i > pathLenth
          THEN ensureNestedAssign(map, nestedKeys, name, getParameterValue(p))
          ELSE ObjL(AssignKey(map.props, name, getParameterValue(p)))

RECURSIVE reduceParameters(_, _, _, _)
reduceParameters(map, path, params, i) ==
    IF i > Len(params) THEN map
    ELSE reduceParameters(addParameter(map, path, params[i]), path, params, i + 1)

\* the nested object of a parameter list fetched for path
valuesOf(params, path) == reduceParameters(ObjL(<<>>), path, params, 1)

findValuesByPath(paramsByPath, path) == valuesOf(paramsByPath[path], path)

(***************************************************************************)
(* expandEntries: the entries applied in order.  findValue throws for a    *)
(* name that is in no parameter, after the initial key was deleted; the    *)
(* loop stops there.                                                       *)
(***************************************************************************)
NoError == [kind |-> "none"]
NotFoundError(name) == [kind |-> "Error", name |-> name]
TypeError == [kind |-> "TypeError"]
InvalidParametersError(names) ==
    [kind |-> "InvalidParametersError", invalidParameters |-> names]
RemoteError == [kind |-> "RemoteError"]

RECURSIVE expandFrom(_, _, _, _, _)
expandFrom(h, es, params, paramsByPath, i) ==
    IF i > Len(es) THEN [heap |-> h, err |-> NoError]
    ELSE
      LET e == es[i]
          deleted == [h EXCEPT ![e.parent] = DeleteKey(@, e.initKey)]
          byName == instanceOfByNameData(e.data)
          found == IF byName THEN findValue(params, e.data.name) ELSE NotFound
          value == IF byName THEN found.value
                   ELSE findValuesByPath(paramsByPath, e.data.path)
      IN  IF byName /\ ~found.found
          THEN [heap |-> deleted, err |-> NotFoundError(e.data.name)]
          ELSE expandFrom([deleted EXCEPT ![e.parent] = AssignKey(@, e.key, value)],
                          es, params, paramsByPath, i + 1)

expandEntries(h, es, params, paramsByPath) ==
    expandFrom(h, es, params, paramsByPath, 1)

byNameDataList(es) ==
    LET sel == SelectSeq(es, LAMBDA e : instanceOfByNameData(e.data))
    IN  [i \in 1..Len(sel) |-> sel[i].data]

byPathDataList(es) ==
    LET sel == SelectSeq(es, LAMBDA e : instanceOfByPathData(e.data))
    IN  [i \in 1..Len(sel) |-> sel[i].data]

(***************************************************************************)
(* The remote service, after the mock of the tests: a store of parameters, *)
(* getParameters answering name by name, getParametersByPath paging the    *)
(* names under a path.  What the mock fixes and a service does not (the    *)
(* page size, a call that fails, a name neither returned nor reported) is  *)
(* chosen by the actions.                                                  *)
(***************************************************************************)
Store ==
    << [Name |-> <<"/", "x">>, Type |-> "String", Values |-> << <<"v1">>, <<"v2">> >>],
       [Name |-> <<"/", "l">>, Type |-> "StringList", Values |-> << <<"a", ",", "b">> >>],
       [Name |-> <<"/", "n", "/", "d", "/", "q">>, Type |-> "String", Values |-> << <<"vq">> >>],
       [Name |-> <<"/", "n", "/", "p">>, Type |-> "String", Values |-> << <<"vp">> >>] >>

\* Number.parseInt of a selector: 0 stands for NaN
ParseInt(sel) ==
    CASE sel = <<"1">> -> 1
      [] sel = <<"2">> -> 2
      [] sel = <<"3">> -> 3
      [] OTHER -> 0

Missing == [ok |-> FALSE]

\* the mock's getParameter: the parameter of a name[:version], or it throws
ServiceGetParameter(name) ==
    LET parts == Split(name, ":")
        Name == parts[1]
        selector == IF Len(parts) >= 2 THEN parts[2] ELSE <<>>
        Selector == IF Len(selector) > 0 THEN <<":">> \o selector ELSE <<>>
        hits == {i \in 1..Len(Store) : Store[i].Name = Name}
    IN  IF Len(selector) > 0 /\ ParseInt(selector) = 0 THEN Missing
        ELSE IF hits = {} THEN Missing
        ELSE
          LET p == Store[CHOOSE i \in hits : TRUE]
              Version == IF Len(selector) > 0 THEN ParseInt(selector)
                         ELSE Len(p.Values)
          IN  IF Version > Len(p.Values) THEN Missing
              ELSE [ok |-> TRUE,
                    param |-> [Name |-> Name, Type |-> p.Type,
                               Value |-> p.Values[Version], Selector |-> Selector]]

\* the mock's getParameters; the names of `omit` are left out of both lists
ServiceGetParameters(Names, omit) ==
    LET valid == SelectSeq(Names,
                    LAMBDA n : ServiceGetParameter(n).ok /\ n \notin omit)
        invalid == SelectSeq(Names, LAMBDA n : ~ServiceGetParameter(n).ok)
    IN  [st |-> "ok",
         Parameters |-> [i \in 1..Len(valid) |-> ServiceGetParameter(valid[i]).param],
         InvalidParameters |-> invalid]

IsPrefix(p, s) == Len(p) <= Len(s) /\ SubSeq(s, 1, Len(p)) = p

\* the names of the store under a path, as the mock's regular expression
\* selects them: every descendant if recursive, the children if not
ServiceNamesUnder(Path, Recursive) ==
    LET path == IF EndsWith(Path, "/") THEN Path ELSE Path \o <<"/">>
        under(n) == /\ IsPrefix(path, n)
                    /\ Len(n) > Len(path)
                    /\ (Truthy(Recursive)
                          \/ IndexOf(SubSeq(n, Len(path) + 1, Len(n)), "/") < 0)
        sel == SelectSeq(Store, LAMBDA p : under(p.Name))
    IN  [i \in 1..Len(sel) |-> sel[i].Name]

NoToken == <<>>

\* the mock's getParametersByPath for a page of maxResults names: the token
\* is the first name left for the next page
ServiceGetParametersByPath(req, maxResults) ==
    LET all == ServiceNamesUnder(req.Path, req.Recursive)
        initIndex == IF Len(req.NextToken) > 0
                     THEN IndexOf(all, req.NextToken) ELSE 0
        names == SubSeq(all, initIndex + 1, Len(all))
        page == SubSeq(names, 1, Min(maxResults, Len(names)))
    IN  IF ~StartsWith(req.Path, "/") \/ initIndex < 0 THEN [ok |-> FALSE]
        ELSE [ok |-> TRUE,
              Parameters |-> ServiceGetParameters(page, {}).Parameters,
              NextToken |-> IF Len(names) > maxResults
                            THEN names[maxResults + 1] ELSE NoToken]

(***************************************************************************)
(* getParameters and getParametersByPaths.                                 *)
(***************************************************************************)
\* names.slice(a, b)
Slice(s, a, b) == SubSeq(s, a + 1, Min(b, Len(s)))

\* the Names of the calls of the loop of lines 83-91
RECURSIVE BatchesFrom(_, _)
BatchesFrom(names, i) ==
    IF i >= Len(names) THEN <<>>
    ELSE <<Slice(names, i, i + GET_PARAMETERS_LIMIT)>>
            \o BatchesFrom(names, i + GET_PARAMETERS_LIMIT)

\* a loop whose slices end one name too far
BatchesOverlap(names) ==
    [k \in 1..((Len(names) + GET_PARAMETERS_LIMIT - 1) \div GET_PARAMETERS_LIMIT) |->
        Slice(names, GET_PARAMETERS_LIMIT * (k - 1),
              GET_PARAMETERS_LIMIT * (k - 1) + GET_PARAMETERS_LIMIT + 1)]

Batches(names) == BatchesFrom(names, 0)

Pending == [st |-> "pending"]
Failed == [st |-> "failed"]

\* a join that waits for every call before it rejects (Promise.allSettled)
PromiseAllSettled(sts) ==
    IF \E i \in 1..Len(sts) : sts[i] = "pending" THEN "pending"
    ELSE IF \E i \in 1..Len(sts) : sts[i] = "failed" THEN "rejected"
    ELSE "fulfilled"

\* Promise.all over calls in these states: it rejects with the first
\* failure and is fulfilled once every call is
PromiseAll(sts) ==
    IF \E i \in 1..Len(sts) : sts[i] = "failed" THEN "rejected"
    ELSE IF \A i \in 1..Len(sts) : sts[i] = "ok" THEN "fulfilled"
    ELSE "pending"

\* parameters and invalidParameters of lines 93-104, over the responses
parametersOf(resps) == Flatten([k \in 1..Len(resps) |-> resps[k].Parameters])
\* an aggregation that stops after the first response
invalidParametersOfFirst(resps) ==
    IF Len(resps) = 0 THEN <<>> ELSE resps[1].InvalidParameters

invalidParametersOf(resps) ==
    Flatten([k \in 1..Len(resps) |-> resps[k].InvalidParameters])

\* a request that leaves the token out
PathRequestNoToken(data, nextToken) ==
    [Path |-> data.path, Recursive |-> data.recursive,
     NextToken |-> <<>>, WithDecryption |-> TRUE]

\* the request of lines 119-126
PathRequest(data, nextToken) ==
    [Path |-> data.path, Recursive |-> data.recursive,
     NextToken |-> nextToken, WithDecryption |-> TRUE]

\* the state of the promise of getParametersByPath(ssm, data)
pathStatus(calls, resps) ==
    IF Len(resps) > 0 /\ ~resps[Len(resps)].ok THEN "failed"
    ELSE IF Len(calls) > 0 /\ Len(calls) = Len(resps)
            /\ resps[Len(resps)].NextToken = NoToken THEN "ok"
    ELSE "pending"

\* what getParametersByPath resolves with: the pages, in order
pathParameters(resps) == Flatten([j \in 1..Len(resps) |-> resps[j].Parameters])

\* the reduce of lines 157-160: a later entry of a path overwrites an earlier
paramsByPathOf(dl, presps) ==
    [P \in {dl[i].path : i \in 1..Len(dl)} |->
        pathParameters(presps[CHOOSE i \in 1..Len(dl) :
            dl[i].path = P /\ \A j \in 1..Len(dl) : dl[j].path = P => j <= i])]

\* the first page of every path asked for at once, with the names
pathCallsIssuedAtOnce(dl, namesDone) ==
    [i \in 1..Len(dl) |-> <<PathRequest(dl[i], <<>>)>>]

\* the getParametersByPath calls inject has issued: none while the await of
\* getParameters (line 351) is pending, then the first page of every path
pathCallsIssued(dl, namesDone) ==
    [i \in 1..Len(dl) |-> IF namesDone THEN <<PathRequest(dl[i], NoToken)>> ELSE <<>>]

(***************************************************************************)
(* inject from line 351 on, run as far as the promises allow: st is where  *)
(* inject waits ("names": line 351, "paths": line 352).                    *)
(***************************************************************************)
RECURSIVE injectFrom(_, _, _, _, _, _)
injectFrom(st, h, es, nresps, pcalls, presps) ==
    LET stay == [pc |-> st, heap |-> h, error |-> NoError, swallowed |-> NoError,
                 pathCalls |-> pcalls]
        reject(e) == [stay EXCEPT !.pc = "rejected", !.error = e]
        dl == byPathDataList(es)
    IN  IF st = "names"
        THEN LET all == PromiseAll([k \in 1..Len(nresps) |-> nresps[k].st])
             IN  CASE all = "pending" -> stay
                   [] all = "rejected" -> reject(RemoteError)
                   [] OTHER ->
                        IF Len(invalidParametersOf(nresps)) > 0
                        THEN reject(InvalidParametersError(invalidParametersOf(nresps)))
                        ELSE injectFrom("paths", h, es, nresps,
                                        pathCallsIssued(dl, TRUE), presps)
        ELSE LET all == IF Len(dl) = 0 THEN "fulfilled"
                        ELSE PromiseAll([i \in 1..Len(dl) |->
                                            pathStatus(pcalls[i], presps[i])])
             IN  CASE all = "pending" -> stay
                   [] all = "rejected" -> reject(RemoteError)
                   [] OTHER ->
                        \* expandEntries is called and not awaited (line 354)
                        LET r == expandEntries(h, es, parametersOf(nresps),
                                               paramsByPathOf(dl, presps))
                        IN  [stay EXCEPT !.pc = "resolved", !.heap = r.heap,
                                         !.swallowed = r.err]

(***************************************************************************)
(* The inputs: trees made of a few of these items and of generated by-name *)
(* keys w1:ssm:name, w2:ssm:name, ...                                       *)
(***************************************************************************)
SsmKey(b) == <<b, ":", "ssm">>
SsmNameKey(b) == <<b, ":", "ssm", ":", "name">>
SsmPathKey(b) == <<b, ":", "ssm", ":", "path">>

Items ==
    << [k |-> SsmNameKey("a"), v |-> StrV(<<"/", "x", ":", "1">>)],
       [k |-> <<"a">>, v |-> StrV(<<"keep">>)],
       [k |-> SsmKey("b"),
        v |-> ObjL(<<[k |-> KPath, v |-> StrV(<<"/", "n">>)],
                     [k |-> KRecursive, v |-> BoolV(TRUE)]>>)],
       [k |-> SsmPathKey("c"), v |-> StrV(<<"/", "n">>)],
       [k |-> <<"d">>, v |-> Null],
       [k |-> SsmKey("e"), v |-> Null],
       [k |-> <<"f">>,
        v |-> ObjL(<<[k |-> SsmKey("g"),
                      v |-> ObjL(<<[k |-> KName, v |-> StrV(<<"/", "l">>)]>>)]>>)],
       [k |-> SsmNameKey("h"), v |-> StrV(<<"/", "z">>)],
       [k |-> <<"i">>,
        v |-> ObjL(<<[k |-> <<"0">>, v |-> StrV(<<"/", "x">>)],
                     [k |-> <<"1">>, v |-> NumV(1)]>>)],
       [k |-> SsmNameKey("j"), v |-> StrV(<<"/", "x", ":", "1", ":", "2">>)] >>

\* the items of a set of indices, in the order of Items
RECURSIVE ItemsOf(_, _)
ItemsOf(S, i) ==
    IF i > Len(Items) THEN <<>>
    ELSE (IF i \in S THEN <<Items[i]>> ELSE <<>>) \o ItemsOf(S, i + 1)

WideCounts ==
    {0, GET_PARAMETERS_LIMIT - 1, GET_PARAMETERS_LIMIT + MaxOver,
     2 * GET_PARAMETERS_LIMIT + MaxOver}

WideNames == {<<"/", "x">>, <<"/", "z">>}

Wide(n, name) ==
    [i \in 1..n |-> [k |-> SsmNameKey("w" \o ToString(i)), v |-> StrV(name)]]

Inputs ==
    {ObjL(ItemsOf(S, 1) \o Wide(n, w)) :
        S \in {T \in SUBSET (1..Len(Items)) : Cardinality(T) <= MaxItems},
        n \in WideCounts, w \in WideNames}

(***************************************************************************)
(* The state machine.                                                      *)
(***************************************************************************)
Init ==
    /\ arg \in Inputs
    /\ mutate \in BOOLEAN
    /\ heap = AllocObj(<<>>, arg.props).heap
    /\ root = 0
    /\ entries = <<>>
    /\ pc = "idle"
    /\ error = NoError
    /\ swallowed = NoError
    /\ nameCalls = <<>>
    /\ nameResps = <<>>
    /\ pathCalls = <<>>
    /\ pathResps = <<>>

\* the state of inject after injectFrom gave r
Continue(r) ==
    /\ heap' = r.heap
    /\ pc' = r.pc
    /\ error' = r.error
    /\ swallowed' = r.swallowed
    /\ pathCalls' = r.pathCalls

\* inject(ssm, obj, {mutate}) up to its first pending await
Inject ==
    /\ pc = "idle"
    /\ \E obj \in {IF mutate THEN [heap |-> heap, id |-> 1] ELSE JsonClone(heap, 1)} :
       \E found \in {findEntries(obj.heap, RefV(obj.id))} :
       \E dataList \in {byNameDataList(found.entries)} :
       \E dl \in {byPathDataList(found.entries)} :
       \E calls \in {Batches([i \in 1..Len(dataList) |-> dataList[i].name])} :
          /\ root' = obj.id
          /\ IF found.err
             THEN /\ heap' = obj.heap
                  /\ pc' = "rejected"
                  /\ error' = TypeError
                  /\ UNCHANGED <<entries, swallowed, nameCalls, nameResps,
                                 pathCalls, pathResps>>
             ELSE /\ entries' = found.entries
                  /\ nameCalls' = calls
                  /\ nameResps' = [k \in 1..Len(calls) |-> Pending]
                  /\ pathResps' = [i \in 1..Len(dl) |-> <<>>]
                  /\ \E r \in {injectFrom("names", obj.heap, found.entries,
                                          [k \in 1..Len(calls) |-> Pending],
                                          pathCallsIssued(dl, FALSE),
                                          [i \in 1..Len(dl) |-> <<>>])} :
                        Continue(r)
    /\ UNCHANGED <<arg, mutate>>

\* what the arrival of the responses nresps, presps does to inject
Arrive(nresps, pcalls, presps) ==
    /\ nameResps' = nresps
    /\ pathResps' = presps
    /\ IF pc \in {"names", "paths"}
       THEN \E r \in {injectFrom(pc, heap, entries, nresps, pcalls, presps)} :
                Continue(r)
       ELSE /\ pathCalls' = pcalls
            /\ UNCHANGED <<heap, pc, error, swallowed>>
    /\ UNCHANGED <<arg, mutate, root, entries, nameCalls>>

\* the names of a call the service knows
KnownNames(Names) ==
    {Names[i] : i \in {j \in 1..Len(Names) : ServiceGetParameter(Names[j]).ok}}

\* the response of getParameters call k arrives
BatchRespond(k) ==
    /\ nameResps[k].st = "pending"
    /\ \E omit \in SUBSET KnownNames(nameCalls[k]) :
          Arrive([nameResps EXCEPT ![k] = ServiceGetParameters(nameCalls[k], omit)],
                 pathCalls, pathResps)

\* getParameters call k fails
BatchFail(k) ==
    /\ nameResps[k].st = "pending"
    /\ Arrive([nameResps EXCEPT ![k] = Failed], pathCalls, pathResps)

\* a page of path i arrives: getParametersByPath asks for the next page
\* when the response has a token (lines 128-137)
PageRespond(i) ==
    /\ Len(pathCalls[i]) > Len(pathResps[i])
    /\ \E size \in 1..MaxPageSize :
          LET req == pathCalls[i][Len(pathCalls[i])]
              resp == ServiceGetParametersByPath(req, size)
              data == byPathDataList(entries)[i]
              calls == IF resp.ok /\ Len(resp.NextToken) > 0
                       THEN Append(pathCalls[i], PathRequest(data, resp.NextToken))
                       ELSE pathCalls[i]
          IN  Arrive(nameResps, [pathCalls EXCEPT ![i] = calls],
                     [pathResps EXCEPT ![i] = Append(@, resp)])

\* a getParametersByPath call of path i fails
PageFail(i) ==
    /\ Len(pathCalls[i]) > Len(pathResps[i])
    /\ Arrive(nameResps, pathCalls, [pathResps EXCEPT ![i] = Append(@, [ok |-> FALSE])])

Next ==
    \/ Inject
    \/ \E k \in 1..Len(nameCalls) : BatchRespond(k)
    \/ \E k \in 1..Len(nameCalls) : BatchFail(k)
    \/ \E i \in 1..Len(pathCalls) : PageRespond(i)
    \/ \E i \in 1..Len(pathCalls) : PageFail(i)

Spec == Init /\ [][Next]_vars

(***************************************************************************)
(* What the properties read.                                               *)
(***************************************************************************)
\* the objects as they were when inject began to work on them
HeapAtCall ==
    LET h0 == AllocObj(<<>>, arg.props).heap
    IN  IF mutate THEN h0 ELSE JsonClone(h0, 1).heap

\* the caller's object and the object inject works on, written out
CallerTree == Stringify(heap, RefV(1))
WorkTree == Stringify(heap, RefV(root))

Called == pc # "idle"
WalkThrew == pc = "rejected" /\ error = TypeError

RequestedNames ==
    [i \in 1..Len(byNameDataList(entries)) |-> byNameDataList(entries)[i].name]

PathData == byPathDataList(entries)

AllBatchesAnswered == \A k \in 1..Len(nameResps) : nameResps[k].st = "ok"
SomeBatchPending == \E k \in 1..Len(nameResps) : nameResps[k].st = "pending"
SomeBatchFailed == \E k \in 1..Len(nameResps) : nameResps[k].st = "failed"
SomePathInFlight == \E i \in 1..Len(pathCalls) : Len(pathCalls[i]) > Len(pathResps[i])
SomePathFailed ==
    \E i \in 1..Len(pathCalls) : pathStatus(pathCalls[i], pathResps[i]) = "failed"

\* entry e has been applied: its initial key is gone, its target key is there
Applied(e) ==
    /\ ~HasKey(heap[e.parent], e.initKey)
    /\ HasKey(heap[e.parent], e.key)

(***************************************************************************)
(* C1.  When every getParameters batch has answered and at least one       *)
(* answer lists an invalid name, inject is rejected with one               *)
(* InvalidParametersError whose invalidParameters is the concatenation, in *)
(* batch order, of the InvalidParameters of the answers (exactly the       *)
(* requested names the service does not know, in entry order), and the     *)
(* tree is as it was passed in.                                            *)
(***************************************************************************)
C1_InvalidNamesAggregated ==
    (/\ Len(nameResps) > 0
     /\ AllBatchesAnswered
     /\ \E k \in 1..Len(nameResps) : Len(nameResps[k].InvalidParameters) > 0)
    => /\ pc = "rejected"
       /\ error.kind = "InvalidParametersError"
       /\ error.invalidParameters
            = Flatten([k \in 1..Len(nameResps) |-> nameResps[k].InvalidParameters])
       /\ error.invalidParameters
            = SelectSeq(RequestedNames, LAMBDA n : ~ServiceGetParameter(n).ok)
       /\ swallowed = NoError
       /\ WorkTree = arg
       /\ CallerTree = arg

\* two batches list invalid names and one of them also resolved a name
C1_Witness ==
    /\ pc = "rejected"
    /\ error.kind = "InvalidParametersError"
    /\ Len(nameResps) >= 2
    /\ Len(nameResps[1].InvalidParameters) > 0
    /\ Len(nameResps[2].InvalidParameters) > 0
    /\ \E k \in 1..Len(nameResps) : Len(nameResps[k].Parameters) > 0

(***************************************************************************)
(* C2.  inject is all or nothing: resolved, every entry is applied;        *)
(* rejected, the tree is as it was passed in; and an entry whose parameter *)
(* reconstruction cannot find makes inject reject.                         *)
(***************************************************************************)
C2_AllOrNothing ==
    /\ pc = "resolved" => \A i \in 1..Len(entries) : Applied(entries[i])
    /\ pc = "rejected" => WorkTree = arg
    /\ swallowed # NoError => pc = "rejected"

(***************************************************************************)
(* C3.  n by-name entries make ceil(n/10) getParameters calls, each of 1   *)
(* to 10 names, the k-th carrying the names 10k .. min(10k+9, n-1) of the  *)
(* entry list; the Names of the calls, concatenated, are the requested     *)
(* names.                                                                  *)
(***************************************************************************)
C3_BatchesOfTen ==
    (Called /\ ~WalkThrew)
    => LET n == Len(RequestedNames)
       IN  /\ Len(nameCalls) = (n + 9) \div 10
           /\ \A k \in 1..Len(nameCalls) :
                /\ Len(nameCalls[k]) \in 1..10
                /\ nameCalls[k] = SubSeq(RequestedNames, 10 * (k - 1) + 1,
                                         Min(10 * (k - 1) + 10, n))
           /\ Flatten(nameCalls) = RequestedNames

\* three calls, the last one not full
C3_Witness ==
    /\ Len(nameCalls) = 3
    /\ Len(nameCalls[3]) < 10
    /\ Len(nameCalls[1]) = 10

(***************************************************************************)
(* C4.  The pages of one path are fetched one after the other until the    *)
(* service gives no token: the first request has no token, request j+1 is  *)
(* there exactly when response j has arrived with a token and carries that *)
(* token with the path and flag of the entry; once inject has resolved,    *)
(* the calls of the path are as many as its pages and the object of a lone *)
(* by-path entry is built from the pages in order, which are all the       *)
(* parameters the service has under the path.                              *)
(***************************************************************************)
C4_PagesInSequence ==
    /\ \A i \in 1..Len(pathCalls) :
         LET calls == pathCalls[i]
             resps == pathResps[i]
         IN  /\ Len(calls) >= 1 => calls[1] = PathRequest(PathData[i], NoToken)
             /\ Len(resps) <= Len(calls)
             /\ Len(calls) <= Len(resps) + 1
             /\ \A j \in 1..Len(resps) :
                  (resps[j].ok /\ Len(resps[j].NextToken) > 0)
                    <=> Len(calls) >= j + 1
             /\ \A j \in 2..Len(calls) :
                  /\ calls[j].NextToken = resps[j - 1].NextToken
                  /\ calls[j].Path = PathData[i].path
                  /\ calls[j].Recursive = PathData[i].recursive
    /\ (pc = "resolved" /\ Len(PathData) = 1)
         => LET e == CHOOSE e \in {entries[x] : x \in 1..Len(entries)} :
                        instanceOfByPathData(e.data)
                pages == [j \in 1..Len(pathResps[1]) |-> pathResps[1][j].Parameters]
            IN  /\ Len(pathCalls[1]) = Len(pathResps[1])
                /\ \A j \in 1..Len(pathResps[1]) : pathResps[1][j].ok
                /\ (swallowed = NoError)
                     => Get(heap[e.parent], e.key) = valuesOf(Flatten(pages), e.data.path)
                /\ Flatten(pages)
                     = ServiceGetParameters(
                         ServiceNamesUnder(e.data.path, e.data.recursive), {}).Parameters

\* a lone path fetched in two pages or more, and applied
C4_Witness ==
    /\ pc = "resolved"
    /\ swallowed = NoError
    /\ Len(PathData) = 1
    /\ Len(pathResps[1]) >= 2
    /\ Len(pathResps[1][1].Parameters) > 0

(***************************************************************************)
(* C5.  The keys for which the parser gives no entry.                      *)
(***************************************************************************)
\* the keys of object o, as it was at the call, that give no entry
PlainKeys(o) ==
    {HeapAtCall[o][i].k : i \in {j \in 1..Len(HeapAtCall[o]) :
        Len(parseItem(HeapAtCall, o, HeapAtCall[o][j].k).entries) = 0}}

\* key k of object o is there with the scalar or the object it had
KeptSame(o, k) ==
    /\ HasKey(heap[o], k)
    /\ Get(heap[o], k) = Get(HeapAtCall[o], k)

\* key k of object o is there and its value, written out, is what it was
KeptEqual(o, k) ==
    /\ HasKey(heap[o], k)
    /\ Stringify(heap, Get(heap[o], k)) = Stringify(HeapAtCall, Get(HeapAtCall[o], k))

\* some entry of object o has k as its target key
IsTarget(o, k) ==
    \E i \in 1..Len(entries) : entries[i].parent = o /\ entries[i].key = k

\* the value has no key, at any depth, that gives an entry
NoEntryBelow(v) ==
    v.t = "ref" => Len(findEntries(HeapAtCall, v).entries) = 0

\* C5 as claimed: after a successful inject every key that gives no entry is
\* still in its parent with the value it had (the same scalar or the same
\* object), whatever its siblings and their target keys are
C5_PlainKeysKept ==
    (pc = "resolved" /\ swallowed = NoError)
    => \A o \in 1..Len(HeapAtCall) : \A k \in PlainKeys(o) : KeptSame(o, k)

\* C5 as amended: after a successful inject every key that gives no entry
\* and is not the target key of an entry of the same parent is still in its
\* parent with the scalar or the object it had, and the value is equal in
\* depth to what it was when no key below it gives an entry
C5_UntouchedKeysKept ==
    pc = "resolved"
    => \A o \in 1..Len(HeapAtCall) : \A k \in PlainKeys(o) :
          ~IsTarget(o, k)
          => /\ KeptSame(o, k)
             /\ NoEntryBelow(Get(HeapAtCall[o], k)) => KeptEqual(o, k)

\* a kept key whose parent had an entry applied
C5_Witness ==
    /\ pc = "resolved"
    /\ swallowed = NoError
    /\ \E o \in 1..Len(HeapAtCall) : \E k \in PlainKeys(o) :
          /\ ~IsTarget(o, k)
          /\ KeptEqual(o, k)
          /\ \E i \in 1..Len(entries) : entries[i].parent = o /\ Applied(entries[i])

(***************************************************************************)
(* C6.  With mutate false the caller's object never changes, the object    *)
(* returned is another one, and in it every entry is resolved; with mutate *)
(* true the object returned is the caller's.                               *)
(***************************************************************************)
C6_MutateFalseCopy ==
    /\ ~mutate => CallerTree = arg
    /\ (~mutate /\ Called) => root # 1
    /\ (~mutate /\ pc = "resolved") => \A i \in 1..Len(entries) : Applied(entries[i])
    /\ (mutate /\ Called) => root = 1

C8_SettlesAfterAllCalls ==
    pc \in {"resolved", "rejected"} => (~SomeBatchPending /\ ~SomePathInFlight)

\* C8 as amended: the calls are joined by Promise.all: inject goes on, or
\* rejects for invalid names, only when every batch has answered, and
\* resolves only when every path is drained; when a call fails inject
\* rejects at once with that failure, whatever sibling calls are in flight
C8_JoinIsPromiseAll ==
    /\ pc \in {"paths", "resolved"} => AllBatchesAnswered
    /\ (pc = "rejected" /\ error.kind = "InvalidParametersError") => AllBatchesAnswered
    /\ pc = "resolved"
         => \A i \in 1..Len(pathCalls) : pathStatus(pathCalls[i], pathResps[i]) = "ok"
    /\ SomeBatchFailed => (pc = "rejected" /\ error = RemoteError)
    /\ SomePathFailed => (pc = "rejected" /\ error = RemoteError)
    /\ (pc = "rejected" /\ (SomeBatchPending \/ SomePathInFlight))
         => (SomeBatchFailed \/ SomePathFailed)

\* a batch failed, inject is rejected and a sibling batch is still in flight
C8_Witness ==
    /\ pc = "rejected"
    /\ error = RemoteError
    /\ SomeBatchFailed
    /\ SomeBatchPending

(***************************************************************************)
(* C9.  The walk of the entry finder goes through every tree of strings,   *)
(* numbers, booleans, null, arrays and objects without raising an error,   *)
(* a null value being skipped.                                             *)
(***************************************************************************)
C9_WalkCompletes == Called => ~WalkThrew

(***************************************************************************)
(* C10.  Every by-path entry gets the object built from the parameters     *)
(* fetched for its own path and its own recursive flag.                    *)
(***************************************************************************)
PathEntries == SelectSeq(entries, LAMBDA e : instanceOfByPathData(e.data))

C10_OwnFetchPerEntry ==
    (pc = "resolved" /\ swallowed = NoError)
    => \A i \in 1..Len(PathEntries) :
          Get(heap[PathEntries[i].parent], PathEntries[i].key)
            = valuesOf(pathParameters(pathResps[i]), PathEntries[i].data.path)

=============================================================================
